---------------------------- MODULE Spec2Model ----------------------------
(***************************************************************************)
(* The pomodoro block of i3status-rust (src/blocks/pomodoro.rs): the       *)
(* four-phase timer PomodoroState, the handlers Block::update (the host's  *)
(* periodic tick) and Block::click, the label renderer and the i3-nagbar   *)
(* notifier.                                                               *)
(*                                                                         *)
(* Time.  An Instant is a number of clock units since the origin of the    *)
(* monotonic clock, a Duration a number of clock units; one second is      *)
(* UnitsPerSec units, so Duration::as_secs truncates.  The clock advances  *)
(* between handler calls, by ClockStep units at a time; every Instant::now *)
(* of one handler call reads the same value.  The origin is the least      *)
(* representable Instant: Instant::checked_sub yields None below it.       *)
(*                                                                         *)
(* A panic (expect / unwrap on a failure) ends the host process: it is     *)
(* recorded in panicked, and no handler of any block runs afterwards.      *)
(***************************************************************************)
EXTENDS Integers, Sequences, FiniteSets, TLC

VARIABLES
    now,        \* the monotonic clock: what Instant::now() returns
    blocks,     \* instance name -> the Pomodoro struct of that instance
    panicked,   \* the host process died in a panic
    nag_calls,  \* the notifier launches attempted by the last handler call
    last,       \* the last handler call: its inputs and the state it found
    session,    \* history: instance name -> the clock time its work session
                \* has spent Started (worked) and Paused (paused) so far
    exits       \* history: instance name -> the breaks left since the reset

vars == <<now, blocks, panicked, nag_calls, last, session, exits>>

----------------------------------------------------------------------------
(* Bounds of the model *)

UnitsPerSec == 2     \* clock units per second (the clock's resolution)
ClockStep == 40      \* clock units the clock advances between two readings
MaxClock == 280      \* the clock is not advanced beyond this reading
MaxCount == 2        \* count is not incremented beyond this
MaxConfigLen == 1    \* length and break_length are configured in 0..MaxConfigLen minutes

MaxFmtSecs == 125    \* the renderer is given up to this many seconds, from 0 and from one hour on

(* Program constants *)

SecsPerMin == 60              \* "* 60, convert to minutes"; also "/ 60", "% 60" in fmt
UpdateIntervalMillis == 1000  \* Duration::from_millis(1000)

\* mutant of Uuid: every instance is given the same id
Uuid_same_for_all(i) == "uuid-1"

Instances == {"p1", "p2"}                       \* the instances a host may register
Uuid(i) == IF i = "p1" THEN "uuid-1" ELSE "uuid-2"   \* Uuid::new_v4(): distinct per instance
NoName == "none"                                \* event.name = None
Names == {NoName} \cup {Uuid(i) : i \in Instances}
Buttons == {"Left", "Middle", "Right"}          \* MouseButton; only Right is distinguished

default_message == "Pomodoro over! Take a break!"
default_break_message == "Break over! Time to work!"

----------------------------------------------------------------------------
(* std::time *)

from_secs(s) == s * UnitsPerSec
from_millis(ms) == (ms * UnitsPerSec) \div 1000
as_secs(d) == d \div UnitsPerSec

\* Instant::duration_since(earlier): the time from earlier to this instant
duration_since(later, earlier) == IF later >= earlier THEN later - earlier ELSE 0

\* Instant::checked_sub(duration): None when the result is not representable
None == [some |-> FALSE]
Some(v) == [some |-> TRUE, v |-> v]
checked_sub(instant, duration) ==
    IF duration <= instant THEN Some(instant - duration) ELSE None

----------------------------------------------------------------------------
(* enum PomodoroState *)

Started(start) == [tag |-> "Started", start |-> start]
Stopped == [tag |-> "Stopped"]
Paused(duration) == [tag |-> "Paused", duration |-> duration]
OnBreak(start) == [tag |-> "OnBreak", start |-> start]

Unreachable == -1   \* unreachable!(): the value stands for the panic

\* PomodoroState::elapsed, at clock reading clk
elapsed(st, clk) ==
    CASE st.tag = "Started" -> duration_since(clk, st.start)
      [] st.tag = "Stopped" -> Unreachable
      [] st.tag = "Paused"  -> st.duration
      [] st.tag = "OnBreak" -> duration_since(clk, st.start)

\* "{:02}": at least two digits, padded with zeros
Pad2(n) == IF n < 10 THEN <<0, n>> ELSE <<n \div 10, n % 10>>

\* mutant of MinSec: the minutes wrap at the hour
MinSec_wraps_minutes(m, s) == [min |-> m % 60, sec |-> Pad2(s)]

\* "{}:{:02}" of minutes and seconds
MinSec(m, s) == [min |-> m, sec |-> Pad2(s)]

\* mutant of fmt_reads: Stopped is rendered through elapsed() too
fmt_reads_also_stopped(st, clk) ==
    CASE st.tag \in {"Started", "OnBreak", "Stopped"} ->
              <<elapsed(st, clk), elapsed(st, clk)>>
      [] OTHER -> <<>>

\* the values the calls of self.elapsed() in fmt return: one for the minutes
\* and one for the seconds in the Started and OnBreak arms, none elsewhere
fmt_reads(st, clk) ==
    CASE st.tag \in {"Started", "OnBreak"} ->
              <<elapsed(st, clk), elapsed(st, clk)>>
      [] OTHER -> <<>>

\* impl fmt::Display for PomodoroState, at clock reading clk
fmt(st, clk) ==
    CASE st.tag = "Stopped" -> [min |-> 0, sec |-> <<0, 0>>]
      [] st.tag = "Started" ->
            MinSec(as_secs(fmt_reads(st, clk)[1]) \div SecsPerMin,
                   as_secs(fmt_reads(st, clk)[2]) % SecsPerMin)
      [] st.tag = "OnBreak" ->
            MinSec(as_secs(fmt_reads(st, clk)[1]) \div SecsPerMin,
                   as_secs(fmt_reads(st, clk)[2]) % SecsPerMin)
      [] st.tag = "Paused" ->
            MinSec(as_secs(st.duration) \div SecsPerMin,
                   as_secs(st.duration) % SecsPerMin)

\* unreachable!() was hit by one of the calls of elapsed() that returned reads
hits_unreachable(reads) == \E k \in DOMAIN reads : reads[k] = Unreachable

\* Pomodoro::compute_state
compute_state(p) ==
    CASE p.state.tag = "Started" -> "Info"
      [] p.state.tag = "Stopped" -> "Idle"
      [] p.state.tag = "Paused"  -> "Warning"
      [] p.state.tag = "OnBreak" -> "Critical"

\* Pomodoro::set_text: the label "{count} | {state}" and the widget's state
set_text(p, clk) ==
    [p EXCEPT !.time = [text  |-> [count |-> p.count, clock |-> fmt(p.state, clk)],
                        state |-> compute_state(p)]]

\* Pomodoro::nag: the launch of nag_path with -t level -m message
nag(message, level, spawn_ok) ==
    [args |-> <<"-t", level, "-m", message>>, ok |-> spawn_ok]

----------------------------------------------------------------------------
(* ConfigBlock::new *)

\* ButtonWidget::new(config, &id): no text yet, State::Idle
NewWidget == [text  |-> [count |-> 0, clock |-> [min |-> 0, sec |-> <<0, 0>>]],
              state |-> "Idle"]

new(i, cfg_length, cfg_break_length, cfg_use_nag) ==
    [id              |-> Uuid(i),
     time            |-> NewWidget,
     state           |-> Stopped,
     length          |-> from_secs(cfg_length * SecsPerMin),
     break_length    |-> from_secs(cfg_break_length * SecsPerMin),
     update_interval |-> from_millis(UpdateIntervalMillis),
     message         |-> default_message,
     break_message   |-> default_break_message,
     use_nag         |-> cfg_use_nag,
     count           |-> 0]

NoCall == [op |-> "new", block |-> "-", name |-> "-", button |-> "-",
           from |-> "-", count |-> 0]

\* history of a work session that has not begun
NoSession == [worked |-> 0, paused |-> 0]

\* history: the number of times the block has left OnBreak by a tick or a
\* primary click since it was constructed or last reset by a Right click,
\* after a handler call that found it in phase from and left it in phase to
exits_after(n, reset, from, to) ==
    IF reset THEN 0
    ELSE IF from = "OnBreak" /\ to # "OnBreak" THEN n + 1 ELSE n

\* the history of a block's session after a handler call that found the
\* block in phase from and left it in phase to: it goes on through pause
\* and resume, is kept for the break that follows it, and is void otherwise
session_after(h, from, to) ==
    IF from \in {"Started", "Paused"} /\ to \in {"Started", "Paused", "OnBreak"}
    THEN h
    ELSE IF from = "OnBreak" /\ to = "OnBreak" THEN h ELSE NoSession

\* the history of a block's session after the clock has gone on by step
session_later(h, tag, step) ==
    CASE tag = "Started" -> [h EXCEPT !.worked = @ + step]
      [] tag = "Paused"  -> [h EXCEPT !.paused = @ + step]
      [] OTHER -> h

\* One registered instance, constructed at the clock's origin or later
Init ==
    /\ now \in {k * ClockStep : k \in 0..1}
    /\ \E l \in 0..MaxConfigLen, bl \in 0..MaxConfigLen, n \in BOOLEAN :
          blocks = [i \in {"p1"} |-> new(i, l, bl, n)]
    /\ panicked = FALSE
    /\ nag_calls = <<>>
    /\ last = NoCall
    /\ session = [i \in DOMAIN blocks |-> NoSession]
    /\ exits = [i \in DOMAIN blocks |-> blocks[i].count]

----------------------------------------------------------------------------
(* The clock *)

Advance ==
    /\ now + ClockStep <= MaxClock
    /\ now' = now + ClockStep
    /\ session' = [i \in DOMAIN blocks |->
                      session_later(session[i], blocks[i].state.tag, ClockStep)]
    /\ UNCHANGED <<blocks, panicked, nag_calls, last, exits>>

----------------------------------------------------------------------------
(* impl Block for Pomodoro *)

Call(op, i, name, button) ==
    [op |-> op, block |-> i, name |-> name, button |-> button,
     from |-> blocks[i].state.tag, count |-> blocks[i].count]

\* update, the Started arm: "if self.state.elapsed() >= self.length"
work_over(p, clk) == elapsed(p.state, clk) >= p.length

\* update, the OnBreak arm: "if self.state.elapsed() >= self.break_length"
break_over(p, clk) == elapsed(p.state, clk) >= p.break_length

\* the notifier launches update attempts: "if self.use_nag { self.nag(..) }"
update_nag(p, clk, spawn_ok) ==
    CASE p.state.tag = "Started" /\ work_over(p, clk) /\ p.use_nag ->
              <<nag(p.message, "error", spawn_ok)>>
      [] p.state.tag = "OnBreak" /\ break_over(p, clk) /\ p.use_nag ->
              <<nag(p.break_message, "warning", spawn_ok)>>
      [] OTHER -> <<>>

\* mutant of update_state: a paused session runs out like a running one
update_state_paused_expires(p, clk) ==
    CASE p.state.tag \in {"Started", "Paused"} /\ work_over(p, clk) ->
              [p EXCEPT !.state = OnBreak(clk)]
      [] p.state.tag = "OnBreak" /\ break_over(p, clk) ->
              [p EXCEPT !.state = Stopped, !.count = p.count + 1]
      [] OTHER -> p

\* the assignments of update's match on self.state
update_state(p, clk) ==
    CASE p.state.tag = "Started" /\ work_over(p, clk) ->
              [p EXCEPT !.state = OnBreak(clk)]
      [] p.state.tag = "OnBreak" /\ break_over(p, clk) ->
              [p EXCEPT !.state = Stopped, !.count = p.count + 1]
      [] OTHER -> p

\* the values the calls of self.state.elapsed() in update's match return
update_reads(p, clk) ==
    CASE p.state.tag \in {"Started", "OnBreak"} -> <<elapsed(p.state, clk)>>
      [] OTHER -> <<>>

\* Block::update on instance i; spawn_ok: whether the notifier can be launched.
\* nag's expect panics before the assignment to self.state, after set_text.
update(i, spawn_ok) ==
    LET p0 == set_text(blocks[i], now)
        reads == fmt_reads(blocks[i].state, now) \o update_reads(p0, now)
        calls == update_nag(p0, now, spawn_ok)
        p1 == update_state(p0, now)
    IN  /\ ~panicked
        /\ p1.count <= MaxCount
        /\ last' = Call("update", i, "-", "-")
        /\ IF hits_unreachable(reads)
           THEN /\ panicked' = TRUE
                /\ nag_calls' = <<>>
                /\ blocks' = blocks
           ELSE /\ nag_calls' = calls
                /\ IF calls # <<>> /\ ~calls[1].ok
                   THEN /\ panicked' = TRUE
                        /\ blocks' = [blocks EXCEPT ![i] = p0]
                   ELSE /\ panicked' = FALSE
                        /\ blocks' = [blocks EXCEPT ![i] = p1]
        /\ session' = [session EXCEPT ![i] =
                          session_after(@, blocks[i].state.tag, blocks'[i].state.tag)]
        /\ exits' = [exits EXCEPT ![i] =
                        exits_after(@, FALSE, blocks[i].state.tag, blocks'[i].state.tag)]
        /\ UNCHANGED now

\* mutant of addressed: any named event is taken as addressed to this block
addressed_any_name(p, name) == name # NoName

\* click: "if let Some(ref name) = event.name { if name.as_str() == self.id"
addressed(p, name) == name # NoName /\ name = p.id

\* mutant of click_right: the reset leaves count alone
click_right_keeps_count(p) == [p EXCEPT !.state = Stopped]

\* click, MouseButton::Right
click_right(p) == [p EXCEPT !.state = Stopped, !.count = 0]

\* mutant of click_stopped: starting a session clears count
click_stopped_clears_count(p, clk) == [p EXCEPT !.state = Started(clk), !.count = 0]

\* click, any other button, PomodoroState::Stopped
click_stopped(p, clk) == [p EXCEPT !.state = Started(clk)]

\* mutant of click_started: the pause stores the clock reading
click_started_stores_instant(p, clk) == [p EXCEPT !.state = Paused(clk)]

\* click, any other button, PomodoroState::Started
click_started(p, clk) == [p EXCEPT !.state = Paused(elapsed(p.state, clk))]

\* mutant of paused_resume: the start is not backdated
paused_resume_not_backdated(duration, clk) == Some(clk)

\* mutant of paused_resume: the start is backdated by twice the duration
paused_resume_subtracts_twice(duration, clk) == checked_sub(clk, 2 * duration)

\* click, any other button, PomodoroState::Paused: the backdated start,
\* None where checked_sub has no Instant to give
paused_resume(duration, clk) == checked_sub(clk, duration)

\* mutant of click_on_break: a skipped break is not counted
click_on_break_not_counted(p, clk) == [p EXCEPT !.state = Started(clk)]

\* click, any other button, PomodoroState::OnBreak
click_on_break(p, clk) == [p EXCEPT !.state = Started(clk), !.count = p.count + 1]

\* the match on event.button and self.state in click; None: unwrap() panics
click_state(p, button, clk) ==
    IF button = "Right"
    THEN Some(click_right(p))
    ELSE CASE p.state.tag = "Stopped" -> Some(click_stopped(p, clk))
           [] p.state.tag = "Started" -> Some(click_started(p, clk))
           [] p.state.tag = "Paused" ->
                  LET t == paused_resume(p.state.duration, clk)
                  IN  IF t.some THEN Some([p EXCEPT !.state = Started(t.v)])
                      ELSE None
           [] p.state.tag = "OnBreak" -> Some(click_on_break(p, clk))

\* the values the calls of self.state.elapsed() in click's match return
click_reads(p, name, button, clk) ==
    IF addressed(p, name) /\ button # "Right" /\ p.state.tag = "Started"
    THEN <<elapsed(p.state, clk)>>
    ELSE <<>>

\* Block::click on instance i with event {name, button}
click(i, name, button) ==
    LET p0 == blocks[i]
        r == IF addressed(p0, name) THEN click_state(p0, button, now) ELSE Some(p0)
        reads == click_reads(p0, name, button, now)
                    \o (IF r.some THEN fmt_reads(r.v.state, now) ELSE <<>>)
    IN  /\ ~panicked
        /\ r.some => r.v.count <= MaxCount
        /\ nag_calls' = <<>>
        /\ last' = Call("click", i, name, button)
        /\ IF r.some /\ ~hits_unreachable(reads)
           THEN /\ blocks' = [blocks EXCEPT ![i] = set_text(r.v, now)]
                /\ panicked' = FALSE
           ELSE /\ blocks' = blocks
                /\ panicked' = TRUE
        /\ session' = [session EXCEPT ![i] =
                          session_after(@, blocks[i].state.tag, blocks'[i].state.tag)]
        /\ exits' = [exits EXCEPT ![i] =
                        exits_after(@, addressed(p0, name) /\ button = "Right",
                                    blocks[i].state.tag, blocks'[i].state.tag)]
        /\ UNCHANGED now

Tick == \E i \in DOMAIN blocks, spawn_ok \in BOOLEAN : update(i, spawn_ok)
Click == \E i \in DOMAIN blocks, name \in Names, button \in Buttons : click(i, name, button)

Next == Advance \/ Tick \/ Click

Spec == Init /\ [][Next]_vars

----------------------------------------------------------------------------
(* Steps, as the properties below name them.  Advance changes the clock    *)
(* and no handler does, so a step that leaves the clock alone is a handler *)
(* call, and last' is that call.                                           *)

Called(op, i) == now' = now /\ last'.op = op /\ last'.block = i

Ticked(i) == Called("update", i)

AddressedClick(i) == Called("click", i) /\ last'.name = blocks[i].id

UnaddressedClick(i) == Called("click", i) /\ last'.name # blocks[i].id

RightClick(i) == AddressedClick(i) /\ last'.button = "Right"

PrimaryClick(i) == AddressedClick(i) /\ last'.button # "Right"

\* the states: the last call was made on p1 ...
WasAddressedClick == last.op = "click" /\ last.block = "p1" /\ last.name = blocks["p1"].id

----------------------------------------------------------------------------
\* C1: an addressed click with the Right button, from any phase and with any
\* count, leaves the block Stopped (Idle) with count = 0 and launches no
\* notifier.
C1_RightClickResets ==
    [][\A i \in DOMAIN blocks :
          RightClick(i) =>
              /\ blocks'[i].state = Stopped
              /\ blocks'[i].count = 0
              /\ nag_calls' = <<>>
              /\ ~panicked']_vars

\* a Right click has reset a paused session that had completed cycles
C1_Witness ==
    /\ WasAddressedClick /\ last.button = "Right"
    /\ last.from = "Paused" /\ last.count >= 1
    /\ blocks["p1"].state = Stopped /\ blocks["p1"].count = 0

\* C2 (as claimed): a tick of a Working block moves it to OnBreak(now) if and
\* only if elapsed() >= length at that tick, leaves Started and its start
\* alone otherwise, and leaves count alone in both cases.
C2_WorkTick ==
    [][\A i \in DOMAIN blocks :
          (Ticked(i) /\ blocks[i].state.tag = "Started") =>
              /\ blocks'[i].state =
                    IF elapsed(blocks[i].state, now) >= blocks[i].length
                    THEN OnBreak(now) ELSE blocks[i].state
              /\ blocks'[i].count = blocks[i].count]_vars

\* C3 (as claimed): a tick of a block OnBreak moves it to Stopped and adds
\* exactly 1 to count if and only if elapsed() >= break_length at that tick,
\* and leaves phase and count alone otherwise.
C3_BreakTick ==
    [][\A i \in DOMAIN blocks :
          (Ticked(i) /\ blocks[i].state.tag = "OnBreak") =>
              IF elapsed(blocks[i].state, now) >= blocks[i].break_length
              THEN /\ blocks'[i].state = Stopped
                   /\ blocks'[i].count = blocks[i].count + 1
              ELSE /\ blocks'[i].state = blocks[i].state
                   /\ blocks'[i].count = blocks[i].count]_vars

\* C4: an addressed click with a button other than Right takes Stopped to
\* Started(now), Started to Paused(elapsed()), Paused(a) to Started(now - a)
\* and OnBreak to Started(now) with count + 1; count is unchanged in the
\* first three rows, and no row launches a notifier.
C4_PrimaryClickTable ==
    [][\A i \in DOMAIN blocks :
          PrimaryClick(i) =>
              LET st == blocks[i].state
                  c  == blocks[i].count
              IN  /\ st.tag = "Stopped" =>
                        blocks'[i].state = Started(now) /\ blocks'[i].count = c
                  /\ st.tag = "Started" =>
                        /\ blocks'[i].state = Paused(now - st.start)
                        /\ blocks'[i].count = c
                  /\ st.tag = "Paused" =>
                        /\ blocks'[i].state = Started(now - st.duration)
                        /\ blocks'[i].count = c
                  /\ st.tag = "OnBreak" =>
                        blocks'[i].state = Started(now) /\ blocks'[i].count = c + 1
                  /\ nag_calls' = <<>>
                  /\ ~panicked']_vars

\* a primary click has skipped a break: the block is Started at the clock
\* reading, with one more completed cycle
C4_Witness ==
    /\ WasAddressedClick /\ last.button = "Middle" /\ last.from = "OnBreak"
    /\ blocks["p1"].state = Started(now)
    /\ blocks["p1"].count = last.count + 1

\* C5: a click whose name is absent or is not the block's id leaves the
\* phase, with its timestamp or duration, and count unchanged, for every
\* phase and every button, and launches no notifier.
C5_UnaddressedClickIgnored ==
    [][\A i \in DOMAIN blocks :
          UnaddressedClick(i) =>
              /\ blocks'[i].state = blocks[i].state
              /\ blocks'[i].count = blocks[i].count
              /\ nag_calls' = <<>>
              /\ ~panicked']_vars

\* a Right click addressed to another block has left a break in progress,
\* and the completed cycles, as they were
C5_Witness ==
    /\ last.op = "click" /\ last.block = "p1"
    /\ last.name = Uuid("p2") /\ last.button = "Right"
    /\ last.from = "OnBreak" /\ last.count >= 1
    /\ blocks["p1"].state.tag = "OnBreak"
    /\ blocks["p1"].state.start < now
    /\ blocks["p1"].count = last.count

\* C6: the pause stores elapsed() as read at the pause; the stored duration
\* stays fixed under ticks, clock advances and clicks not addressed to the
\* block; the resume yields Started with elapsed() at the resume equal to
\* the stored duration, whatever time has passed in between.
C6_PauseResumeContinuity ==
    [][\A i \in DOMAIN blocks :
          LET st == blocks[i].state
          IN  /\ (PrimaryClick(i) /\ st.tag = "Started") =>
                    blocks'[i].state = Paused(elapsed(st, now))
              /\ (st.tag = "Paused" /\ ~AddressedClick(i)) =>
                    blocks'[i].state = st
              /\ (PrimaryClick(i) /\ st.tag = "Paused") =>
                    /\ blocks'[i].state.tag = "Started"
                    /\ elapsed(blocks'[i].state, now') = st.duration]_vars

\* a session paused after some work has been resumed later than it started:
\* the start is backdated, and lies after the clock's origin
C6_Witness ==
    /\ WasAddressedClick /\ last.button = "Left" /\ last.from = "Paused"
    /\ blocks["p1"].state.tag = "Started"
    /\ elapsed(blocks["p1"].state, now) > 0
    /\ blocks["p1"].state.start > ClockStep

\* C7 (as claimed): a tick launches the notifier exactly once when it
\* completes a phase and use_nag is set (Started to OnBreak: message at
\* "error"; OnBreak to Stopped: break_message at "warning"), and not
\* otherwise; no click launches it.
C7_NagOncePerCompletion ==
    [][\A i \in DOMAIN blocks :
          LET p  == blocks[i]
              to == blocks'[i].state.tag
              launched == [k \in DOMAIN nag_calls' |-> nag_calls'[k].args]
          IN  /\ Ticked(i) =>
                    launched =
                       CASE p.use_nag /\ p.state.tag = "Started" /\ to = "OnBreak" ->
                               <<(<<"-t", "error", "-m", p.message>>)>>
                         [] p.use_nag /\ p.state.tag = "OnBreak" /\ to = "Stopped" ->
                               <<(<<"-t", "warning", "-m", p.break_message>>)>>
                         [] OTHER -> <<>>
              /\ Called("click", i) => launched = <<>>]_vars

\* C8 (as claimed): a tick whose notifier launch fails still commits its
\* phase transition, returns, and leaves the host processing later calls.
C8_NagFailureNonFatal ==
    [][\A i \in DOMAIN blocks :
          (Ticked(i) /\ nag_calls' # <<>> /\ ~nag_calls'[1].ok) =>
              /\ ~panicked'
              /\ blocks[i].state.tag = "Started" =>
                    blocks'[i].state = OnBreak(now)
              /\ blocks[i].state.tag = "OnBreak" =>
                    /\ blocks'[i].state = Stopped
                    /\ blocks'[i].count = blocks[i].count + 1]_vars

\* C10: count stays the same or grows in every step, except that an
\* addressed Right click sets it to 0; no tick and no other click lowers it.
C10_CountMonotoneButReset ==
    [][\A i \in DOMAIN blocks :
          \/ blocks'[i].count >= blocks[i].count
          \/ RightClick(i) /\ blocks'[i].count = 0]_vars

\* an addressed Right click on an idle block has lowered count from 2 to 0
C10_Witness ==
    /\ WasAddressedClick /\ last.button = "Right"
    /\ last.from = "Stopped" /\ last.count >= 2
    /\ blocks["p1"].count = 0

\* In every reachable state a Paused duration is at most the clock reading
\* and a start is not after it: resume's checked_sub always has an Instant
\* to give, and only a failed notifier launch panics.
ResumeNeverUnderflows ==
    /\ \A i \in DOMAIN blocks :
          LET st == blocks[i].state
          IN  /\ st.tag = "Paused" => st.duration <= now
              /\ st.tag \in {"Started", "OnBreak"} => st.start <= now
    /\ panicked => (nag_calls # <<>> /\ ~nag_calls[1].ok)

----------------------------------------------------------------------------
\* the label and widget state set_text gives the block as it stands
Rendered(p, clk) == set_text(p, clk).time

\* C11: a tick of a Stopped (Idle) or Paused block changes neither the phase
\* nor count and launches no notifier, whatever the clock reads; a tick of
\* a Paused block also leaves the duration and the label as they were.
C11_IdleAndPausedTicksInert ==
    [][\A i \in DOMAIN blocks :
          (Ticked(i) /\ blocks[i].state.tag \in {"Stopped", "Paused"}) =>
              /\ blocks'[i].state = blocks[i].state
              /\ blocks'[i].count = blocks[i].count
              /\ nag_calls' = <<>>
              /\ ~panicked'
              /\ blocks[i].state.tag = "Paused" =>
                    /\ blocks'[i].time = blocks[i].time
                    /\ blocks'[i].time = Rendered(blocks[i], now)]_vars

\* a tick has found the block paused longer than the work length, well
\* after the pause, and left it paused
C11_Witness ==
    /\ last.op = "update" /\ last.block = "p1" /\ last.from = "Paused"
    /\ blocks["p1"].state.tag = "Paused"
    /\ blocks["p1"].length > 0
    /\ blocks["p1"].state.duration >= blocks["p1"].length
    /\ now >= blocks["p1"].state.duration + ClockStep

----------------------------------------------------------------------------
\* C12 (as claimed): in every reachable state a Paused duration is >= 0 and
\* <= length.
C12_PausedWithinWork ==
    \A i \in DOMAIN blocks :
        blocks[i].state.tag = "Paused" =>
            /\ blocks[i].state.duration >= 0
            /\ blocks[i].state.duration <= blocks[i].length

\* C12 (amended): in every reachable state a Paused duration is >= 0 and at
\* most the clock reading, and it is <= length exactly when the click that
\* paused the session found elapsed() <= length: a click that arrives after
\* the work length has run out and before the next tick pauses with more.
C12_PausedBoundedByPause ==
    /\ [](\A i \in DOMAIN blocks :
            blocks[i].state.tag = "Paused" =>
                /\ blocks[i].state.duration >= 0
                /\ blocks[i].state.duration <= now)
    /\ [][\A i \in DOMAIN blocks :
            (PrimaryClick(i) /\ blocks[i].state.tag = "Started") =>
                /\ blocks'[i].state.tag = "Paused"
                /\ (blocks'[i].state.duration <= blocks[i].length)
                     <=> (elapsed(blocks[i].state, now) <= blocks[i].length)]_vars

\* a session of positive length has been paused with more than its length
C12_Witness ==
    /\ WasAddressedClick /\ last.button # "Right" /\ last.from = "Started"
    /\ blocks["p1"].state.tag = "Paused"
    /\ blocks["p1"].length > 0
    /\ blocks["p1"].state.duration > blocks["p1"].length

----------------------------------------------------------------------------
(* One work/break cycle left to run by itself: the only clicks are primary *)
(* clicks that start a session on a Stopped block.  update returns         *)
(* update_interval, which has the host call it again, and the clock goes   *)
(* on: both are weakly fair.                                               *)

StartClick ==
    \E i \in DOMAIN blocks, button \in Buttons \ {"Right"} :
        /\ blocks[i].state.tag = "Stopped"
        /\ click(i, blocks[i].id, button)

NextCycle == Advance \/ Tick \/ StartClick

SpecCycle == Init /\ [][NextCycle]_vars /\ WF_vars(Advance) /\ WF_vars(Tick)

\* the last clock reading the bounded clock reaches
LastReading == (MaxClock \div ClockStep) * ClockStep

\* the block works on its cycle number c + 1, with clock left to end it
WorkingWithRoom(i, c) ==
    /\ blocks[i].state.tag = "Started"
    /\ blocks[i].count = c
    /\ blocks[i].state.start + blocks[i].length <= LastReading

\* the block is on the break of its cycle number c + 1, with clock left
OnBreakWithRoom(i, c) ==
    /\ blocks[i].state.tag = "OnBreak"
    /\ blocks[i].count = c
    /\ blocks[i].state.start + blocks[i].break_length <= LastReading

\* C13 (as claimed): after the primary click that starts a session at count
\* c, with ticks and the clock going on and no further click, the block
\* becomes OnBreak and then Stopped with count = c + 1; the only ticks that
\* change the phase are those two; and a Stopped block can be started
\* again.
C13_CycleCompletes ==
    /\ \A i \in {"p1"}, c \in 0..(MaxCount - 1) :
          /\ WorkingWithRoom(i, c) ~>
                (blocks[i].state.tag = "OnBreak" /\ blocks[i].count = c)
          /\ OnBreakWithRoom(i, c) ~>
                (blocks[i].state = Stopped /\ blocks[i].count = c + 1)
    /\ [][\A i \in DOMAIN blocks :
            (Ticked(i) /\ blocks'[i].state # blocks[i].state) =>
                \/ /\ blocks[i].state.tag = "Started"
                   /\ blocks'[i].state.tag = "OnBreak"
                   /\ blocks'[i].count = blocks[i].count
                \/ /\ blocks[i].state.tag = "OnBreak"
                   /\ blocks'[i].state = Stopped
                   /\ blocks'[i].count = blocks[i].count + 1]_vars
    /\ [](\A i \in DOMAIN blocks :
            blocks[i].state = Stopped => ENABLED click(i, blocks[i].id, "Left"))

----------------------------------------------------------------------------
(* Two registered instances, one clock step before the last reading; the   *)
(* first works no longer than it breaks and uses the notifier, the second  *)
(* is configured with the lengths of the first exchanged and does not.     *)
(* The host calls update on each instance and hands every click event to   *)
(* each instance's click, in any order.                                    *)

InitTwo ==
    /\ now = LastReading - ClockStep
    /\ \E l \in 0..MaxConfigLen, bl \in 0..MaxConfigLen :
          /\ l <= bl
          /\ blocks = [i \in Instances |->
                      IF i = "p1" THEN new(i, l, bl, TRUE) ELSE new(i, bl, l, FALSE)]
    /\ panicked = FALSE
    /\ nag_calls = <<>>
    /\ last = NoCall
    /\ session = [i \in DOMAIN blocks |-> NoSession]
    /\ exits = [i \in DOMAIN blocks |-> blocks[i].count]

SpecTwo == InitTwo /\ [][Next]_vars

\* what a call of update or click leaves of the struct p it is made on, as
\* far as p alone and the call's inputs decide it
AloneOutcomes(p, call, clk) ==
    IF call.op = "update"
    THEN {set_text(p, clk), update_state(set_text(p, clk), clk)}
    ELSE IF call.name = p.id
         THEN {p} \cup {set_text(r.v, clk) :
                          r \in {x \in {click_state(p, call.button, clk)} : x.some}}
         ELSE {set_text(p, clk)}

\* C14: the instances have distinct ids; a step made by a call on one
\* instance, or by the clock, leaves the whole struct of every other
\* instance as it was; a click carrying the id of another instance changes
\* neither phase nor count of the instance it is handed to; and what a call
\* makes of its own instance is decided by that instance's struct and the
\* call's inputs alone, as if it were the only instance.
C14_InstancesIndependent ==
    /\ [](\A i, j \in DOMAIN blocks : i # j => blocks[i].id # blocks[j].id)
    /\ [][\A i \in DOMAIN blocks :
            /\ (now' # now \/ last'.block # i) => blocks'[i] = blocks[i]
            /\ \A j \in DOMAIN blocks \ {i} :
                  (Called("click", i) /\ last'.name = blocks[j].id) =>
                      /\ blocks'[i].state = blocks[i].state
                      /\ blocks'[i].count = blocks[i].count
            /\ (now' = now /\ last'.block = i) =>
                  blocks'[i] \in AloneOutcomes(blocks[i], last', now)]_vars

\* a Right click carrying p1's id has been handed to p2 while p2 was on a
\* break with a completed cycle and p1 was paused: both are as they were
C14_Witness ==
    /\ DOMAIN blocks = Instances
    /\ last.op = "click" /\ last.block = "p2" /\ last.name = blocks["p1"].id
    /\ last.button = "Right" /\ last.from = "OnBreak" /\ last.count >= 1
    /\ blocks["p2"].state.tag = "OnBreak" /\ blocks["p2"].count = last.count
    /\ blocks["p1"].state.tag = "Paused"

----------------------------------------------------------------------------
(* The label renderer by itself: set_text applied to a block in any phase, *)
(* with any count, whose elapsed time is any duration up to MaxFmtSecs     *)
(* seconds or one hour and up to MaxFmtSecs seconds, half units included.  *)

FmtDurations ==
    LET fine == 0..(from_secs(MaxFmtSecs) + 1)
    IN  fine \cup {from_secs(SecsPerMin * SecsPerMin) + u : u \in fine}

FmtClock == from_secs(SecsPerMin * SecsPerMin) + from_secs(MaxFmtSecs) + 1

InitFmt ==
    /\ now = FmtClock
    /\ \E e \in FmtDurations, c \in 0..MaxCount :
       \E st \in {Stopped, Started(FmtClock - e), Paused(e), OnBreak(FmtClock - e)} :
          blocks = [i \in {"p1"} |->
                      [new(i, MaxConfigLen, MaxConfigLen, FALSE)
                          EXCEPT !.state = st, !.count = c]]
    /\ panicked = FALSE
    /\ nag_calls = <<>>
    /\ last = NoCall
    /\ session = [i \in DOMAIN blocks |-> NoSession]
    /\ exits = [i \in DOMAIN blocks |-> blocks[i].count]

RenderLabel ==
    \E i \in DOMAIN blocks :
        /\ blocks' = [blocks EXCEPT ![i] = set_text(blocks[i], now)]
        /\ panicked' = hits_unreachable(fmt_reads(blocks[i].state, now))
        /\ last' = Call("set_text", i, "-", "-")
        /\ UNCHANGED <<now, nag_calls, session, exits>>

SpecFmt == InitFmt /\ [][RenderLabel]_vars

\* the label reads "c | m:d1d2", with d1 d2 two decimal digits below 60, for
\* the count c and a duration e of whole seconds m * 60 + d1 d2
LabelShows(time, c, e) ==
    LET m == time.text.clock.min
        d == time.text.clock.sec
    IN  /\ time.text.count = c
        /\ Len(d) = 2
        /\ d[1] \in 0..9 /\ d[2] \in 0..9
        /\ 10 * d[1] + d[2] < 60
        /\ m >= 0
        /\ LET s == 60 * m + 10 * d[1] + d[2]
           IN  s * UnitsPerSec <= e /\ e < (s + 1) * UnitsPerSec

\* the severity of a phase
Severity(tag) ==
    CASE tag = "Stopped" -> "Idle"
      [] tag = "Started" -> "Info"
      [] tag = "Paused"  -> "Warning"
      [] tag = "OnBreak" -> "Critical"

\* C15: for every phase, count and elapsed duration of s whole seconds (0
\* when Stopped), the rendered label shows the count, s div 60 minutes, not
\* wrapped at 60, and s mod 60 as two digits, and the widget state is Idle
\* for Stopped, Info for Started, Warning for Paused, Critical for OnBreak.
C15_LabelRendered ==
    \A i \in DOMAIN blocks :
        (last.op = "set_text" /\ last.block = i) =>
            LET p == blocks[i]
                e == IF p.state.tag = "Stopped" THEN 0
                     ELSE IF p.state.tag = "Paused" THEN p.state.duration
                     ELSE now - p.state.start
            IN  /\ LabelShows(p.time, p.count, e)
                /\ p.time.state = Severity(p.state.tag)

\* a running session of an hour, a minute, some seconds and a half has been
\* rendered: 61 minutes and a one-digit number of seconds
C15_Witness ==
    /\ last.op = "set_text" /\ last.block = "p1"
    /\ blocks["p1"].state.tag = "Started"
    /\ blocks["p1"].count = 2
    /\ (now - blocks["p1"].state.start) % UnitsPerSec # 0
    /\ blocks["p1"].time.text.clock.min = 61
    /\ blocks["p1"].time.text.clock.sec[1] = 0
    /\ blocks["p1"].time.text.clock.sec[2] = 7

----------------------------------------------------------------------------
\* C16 (as claimed): after every tick that returns, the label shows the
\* count, and the widget the severity of the phase, as they stand after
\* the tick's transition.
C16_LabelAfterTick ==
    [][\A i \in DOMAIN blocks :
          (Ticked(i) /\ ~panicked') =>
              /\ blocks'[i].time.text.count = blocks'[i].count
              /\ blocks'[i].time.state = Severity(blocks'[i].state.tag)]_vars

----------------------------------------------------------------------------
\* C17: no call of update or click, nor the rendering either makes, calls
\* elapsed() on a Stopped block from a reachable state: none of the values
\* elapsed() returns to the call is that of unreachable!(), a panic is only
\* ever that of a failed notifier launch, and a Stopped block is rendered
\* as 0:00 from no clock reading at all.
C17_ElapsedNeverOnStopped ==
    /\ [][\A i \in DOMAIN blocks :
            LET p == blocks[i]
            IN  /\ Ticked(i) =>
                      ~hits_unreachable(fmt_reads(p.state, now) \o update_reads(p, now))
                /\ Called("click", i) =>
                      /\ ~hits_unreachable(click_reads(p, last'.name, last'.button, now))
                      /\ ~hits_unreachable(fmt_reads(blocks'[i].state, now))
                /\ ((Ticked(i) /\ p.state = Stopped)
                      \/ (Called("click", i) /\ blocks'[i].state = Stopped)) =>
                      /\ blocks'[i].time.text.clock = [min |-> 0, sec |-> <<0, 0>>]
                      /\ fmt_reads(Stopped, now) = <<>>]_vars
    /\ [](panicked => (nag_calls # <<>> /\ ~nag_calls[1].ok))

\* a tick has rendered and left alone a Stopped block, late on the clock,
\* after a cycle was completed
C17_Witness ==
    /\ last.op = "update" /\ last.block = "p1" /\ last.from = "Stopped"
    /\ blocks["p1"].state = Stopped
    /\ blocks["p1"].count >= 1
    /\ now >= 2 * ClockStep
    /\ blocks["p1"].time.text = [count |-> blocks["p1"].count,
                                 clock |-> [min |-> 0, sec |-> <<0, 0>>]]
    /\ ~panicked

----------------------------------------------------------------------------
\* C18: the time a session spends Paused does not count as work.  While a
\* block is Started or Paused, elapsed() is the clock time its session has
\* spent Started, whatever it has spent Paused; and a tick that moves the
\* block from Started to OnBreak finds that time equal to elapsed() and no
\* less than length.
C18_PausedTimeNotWorked ==
    /\ [](\A i \in DOMAIN blocks :
            blocks[i].state.tag \in {"Started", "Paused"} =>
                session[i].worked = elapsed(blocks[i].state, now))
    /\ [][\A i \in DOMAIN blocks :
            (Ticked(i) /\ blocks[i].state.tag = "Started"
                       /\ blocks'[i].state.tag = "OnBreak") =>
                /\ session[i].worked = elapsed(blocks[i].state, now)
                /\ session[i].worked >= blocks[i].length
                /\ session'[i] = session[i]]_vars

\* a tick has moved to OnBreak a session of one minute that was paused for
\* some time: it began more than a minute before, and worked just a minute
C18_Witness ==
    /\ last.op = "update" /\ last.block = "p1" /\ last.from = "Started"
    /\ blocks["p1"].state = OnBreak(now)
    /\ blocks["p1"].length = from_secs(SecsPerMin)
    /\ session["p1"].paused > 0
    /\ session["p1"].worked = blocks["p1"].length
    /\ ~panicked

----------------------------------------------------------------------------
\* C19: the clock starts at its origin and never goes back, and so in every
\* reachable state the start of a Started or OnBreak block lies between the
\* origin and now, the duration of a Paused block is between zero and
\* now - origin, resume's checked_sub has an Instant to give, elapsed() is
\* not negative, and the only panic is that of a failed notifier launch.
C19_StartsWithinClock ==
    /\ ResumeNeverUnderflows
    /\ \A i \in DOMAIN blocks :
          LET st == blocks[i].state
          IN  /\ st.tag \in {"Started", "OnBreak"} => 0 <= st.start
              /\ st.tag = "Paused" =>
                    /\ 0 <= st.duration
                    /\ paused_resume(st.duration, now).some
                    /\ paused_resume(st.duration, now).v >= 0
              /\ st.tag # "Stopped" =>
                    /\ 0 <= elapsed(st, now)
                    /\ elapsed(st, now) <= now

\* a primary click has resumed a session paused while the clock went on: its
\* start was backdated to a reading after the origin and before now
C19_Witness ==
    /\ WasAddressedClick /\ last.button # "Right" /\ last.from = "Paused"
    /\ last.block = "p1"
    /\ blocks["p1"].state.tag = "Started"
    /\ 0 < blocks["p1"].state.start /\ blocks["p1"].state.start < now
    /\ session["p1"].paused > 0
    /\ session["p1"].worked = now - blocks["p1"].state.start
    /\ ~panicked

----------------------------------------------------------------------------
\* C20: count is the number of times the block has left OnBreak by a tick or
\* a primary click since it was constructed or last reset by a Right click.
\* A call changes count only by adding one as a tick or a primary click
\* takes the block out of OnBreak, or by the reset of a Right click; a
\* Right click that abandons a session or a break adds nothing.
C20_CountIsBreaksLeft ==
    /\ [](\A i \in DOMAIN blocks : blocks[i].count = exits[i])
    /\ [][\A i \in DOMAIN blocks :
            LET left == /\ blocks[i].state.tag = "OnBreak"
                        /\ blocks'[i].state.tag # "OnBreak"
            IN  /\ (Ticked(i) \/ PrimaryClick(i)) =>
                      blocks'[i].count = blocks[i].count + (IF left THEN 1 ELSE 0)
                /\ RightClick(i) => blocks'[i].count = 0
                /\ blocks'[i].count # blocks[i].count =>
                      \/ (Ticked(i) \/ PrimaryClick(i)) /\ left
                      \/ RightClick(i)]_vars

\* a primary click has skipped a break and made count 2, after an earlier
\* break was left and counted
C20_Witness ==
    /\ WasAddressedClick /\ last.button # "Right" /\ last.from = "OnBreak"
    /\ last.block = "p1" /\ last.count = 1
    /\ blocks["p1"].state.tag = "Started"
    /\ blocks["p1"].count = 2
    /\ exits["p1"] = 2
    /\ ~panicked

=============================================================================
